---------------------------- MODULE Spec2Model ----------------------------
(***************************************************************************)
(* Model of the procedural sales-pipeline workflow: the in-memory session  *)
(* store (session_manager.py), the tools (tools.py), the scrubber          *)
(* (utils.py) and the stages and coordinator (agent.py).                   *)
(*                                                                         *)
(* Python strings are TLA+ strings; TLC evaluates Len, SubSeq and \o on    *)
(* them, so lengths, substrings and concatenations are the real ones.      *)
(* Python dicts are functions whose domain is the set of keys.             *)
(***************************************************************************)
EXTENDS Integers, Sequences, FiniteSets, TLC

(***************************************************************************)
(* Bounds of the model.                                                    *)
(***************************************************************************)
\* largest value the clock time.time() is observed to return
MaxTime == 1
\* number of calls of the workflow functions per behaviour
MaxRuns == 1
\* number of direct calls of the session store between them
MaxStoreOps == 1
\* number of direct calls of the session store when it is driven alone
MaxDirectOps == 3
\* random.choice draws one of the first MaxChoice entries of its list
MaxChoice == 2
\* calls of the shared session store by another caller while a
\* Coordinator_run is going on
MaxRacingOps == 1
\* longest string over EmailAlphabet that validate_email is called on
MaxEmailLen == 11
\* largest employee_count score_lead is called on
MaxEmployeeCount == 1300
\* intent_score ranges over -MaxIntent..MaxIntent
MaxIntent == 5
\* largest attempts value retry is called with
MaxAttempts == 3
\* calls of the two stages per behaviour when they are called one by one
MaxStageCalls == 2

(***************************************************************************)
(* Characters and strings.                                                 *)
(***************************************************************************)
Ch(s, i) == SubSeq(s, i, i)

Lower == {"a","b","c","d","e","f","g","h","i","j","k","l","m",
          "n","o","p","q","r","s","t","u","v","w","x","y","z"}

Upper == {"A","B","C","D","E","F","G","H","I","J","K","L","M",
          "N","O","P","Q","R","S","T","U","V","W","X","Y","Z"}

Alpha == Lower \cup Upper

Digit == {"0","1","2","3","4","5","6","7","8","9"}

\* \s of the re module, restricted to the characters that occur
Space == {" ", "\n", "\t", "\r"}

\* \w of the re module
Word == Alpha \cup Digit \cup {"_"}

\* [a-zA-Z0-9._%+-]
EmailLocal == Alpha \cup Digit \cup {".", "_", "%", "+", "-"}

\* [a-zA-Z0-9.-]
EmailDomain == Alpha \cup Digit \cup {".", "-"}

\* [\d\-\s]
PhoneMid == Digit \cup {"-"} \cup Space

\* "x in s" for a one-character x
HasChar(s, c) == \E i \in 1..Len(s) : Ch(s, i) = c

\* "x in s" for strings
Contains(s, x) == \E i \in 1..(Len(s) - Len(x) + 1) : SubSeq(s, i, i + Len(x) - 1) = x

IsWordAt(s, i) == i >= 1 /\ i <= Len(s) /\ Ch(s, i) \in Word

\* \b between the characters i-1 and i
Boundary(s, i) == IsWordAt(s, i - 1) # IsWordAt(s, i)

\* last index of the longest run of characters of class cls that starts at i
\* (i - 1 when the run is empty)
RunEnd(s, i, cls) ==
    LET stops == {j \in i..Len(s) : /\ Ch(s, j) \notin cls
                                    /\ \A t \in i..(j - 1) : Ch(s, t) \in cls}
    IN  IF stops = {} THEN Len(s) ELSE (CHOOSE j \in stops : TRUE) - 1

Greatest(S) == CHOOSE m \in S : \A y \in S : y <= m

Least(S) == CHOOSE m \in S : \A y \in S : m <= y

\* last index of a match of
\*   \b[a-zA-Z0-9._%+-]+@[a-zA-Z0-9.-]+\.[a-zA-Z]{2,}\b
\* that starts at p, 0 when there is none.  The local part is the whole run
\* up to the "@"; the engine then takes the last "." of the domain run that
\* is followed by two or more letters ending at a word boundary.
EmailMatchEnd(s, p) ==
    IF ~(p <= Len(s) /\ Ch(s, p) \in EmailLocal /\ Boundary(s, p)) THEN 0
    ELSE LET q == RunEnd(s, p, EmailLocal) + 1
         IN  IF ~(q <= Len(s) /\ Ch(s, q) = "@") THEN 0
             ELSE LET r  == RunEnd(s, q + 1, EmailDomain)
                      ks == {k \in (q + 2)..r :
                                /\ Ch(s, k) = "."
                                /\ RunEnd(s, k + 1, Alpha) >= k + 2
                                /\ Boundary(s, RunEnd(s, k + 1, Alpha) + 1)}
                  IN  IF ks = {} THEN 0
                      ELSE RunEnd(s, Greatest(ks) + 1, Alpha)

\* last index of a match of \+?\d[\d\-\s]{7,}\d that starts at p, 0 when none
PhoneMatchEnd(s, p) ==
    LET d == IF p <= Len(s) /\ Ch(s, p) = "+" THEN p + 1 ELSE p
    IN  IF ~(d <= Len(s) /\ Ch(s, d) \in Digit) THEN 0
        ELSE LET e  == RunEnd(s, d + 1, PhoneMid)
                 fs == {f \in (d + 8)..e : Ch(s, f) \in Digit}
             IN  IF fs = {} THEN 0
                 ELSE Greatest(fs)

\* re.sub(email pattern, "[REDACTED_EMAIL]", s) on the rest of s from index
\* p on: the leftmost match is replaced and the scan goes on behind it
RECURSIVE SubEmail(_, _)
SubEmail(s, p) ==
    LET starts == {i \in p..Len(s) : EmailMatchEnd(s, i) # 0}
    IN  IF starts = {} THEN SubSeq(s, p, Len(s))
        ELSE SubSeq(s, p, Least(starts) - 1) \o "[REDACTED_EMAIL]"
             \o SubEmail(s, EmailMatchEnd(s, Least(starts)) + 1)

\* re.sub(phone pattern, "[REDACTED_PHONE]", s) on the rest of s from index p on
RECURSIVE SubPhone(_, _)
SubPhone(s, p) ==
    LET starts == {i \in p..Len(s) : PhoneMatchEnd(s, i) # 0}
    IN  IF starts = {} THEN SubSeq(s, p, Len(s))
        ELSE SubSeq(s, p, Least(starts) - 1) \o "[REDACTED_PHONE]"
             \o SubPhone(s, PhoneMatchEnd(s, Least(starts)) + 1)

\* utils.scrub_output_for_pii
scrub_output_for_pii(text) == SubPhone(SubEmail(text, 1), 1)

\* str.strip()
RECURSIVE LStrip(_)
LStrip(s) == IF Len(s) > 0 /\ Ch(s, 1) \in Space THEN LStrip(SubSeq(s, 2, Len(s))) ELSE s

RECURSIVE RStrip(_)
RStrip(s) == IF Len(s) > 0 /\ Ch(s, Len(s)) \in Space THEN RStrip(SubSeq(s, 1, Len(s) - 1)) ELSE s

Strip(s) == RStrip(LStrip(s))

\* str.lower()
LowerOf(c) ==
    CASE c = "A" -> "a" [] c = "B" -> "b" [] c = "C" -> "c" [] c = "D" -> "d"
      [] c = "E" -> "e" [] c = "F" -> "f" [] c = "G" -> "g" [] c = "H" -> "h"
      [] c = "I" -> "i" [] c = "J" -> "j" [] c = "K" -> "k" [] c = "L" -> "l"
      [] c = "M" -> "m" [] c = "N" -> "n" [] c = "O" -> "o" [] c = "P" -> "p"
      [] c = "Q" -> "q" [] c = "R" -> "r" [] c = "S" -> "s" [] c = "T" -> "t"
      [] c = "U" -> "u" [] c = "V" -> "v" [] c = "W" -> "w" [] c = "X" -> "x"
      [] c = "Y" -> "y" [] c = "Z" -> "z" [] OTHER -> c

\* s.lower().replace(" ", ""), from index p on
RECURSIVE LowerNoSpace(_, _)
LowerNoSpace(s, p) ==
    IF p > Len(s) THEN ""
    ELSE (IF Ch(s, p) = " " THEN "" ELSE LowerOf(Ch(s, p))) \o LowerNoSpace(s, p + 1)

\* utils.safe_str on a str argument: str(s) is s itself
safe_str(s) == s

(***************************************************************************)
(* Dicts.                                                                  *)
(***************************************************************************)
EmptyMap == [k \in {} |-> ""]

\* dict.update: keys of u are overwritten or added, the others are kept
Update(d, u) == [k \in DOMAIN d \cup DOMAIN u |-> IF k \in DOMAIN u THEN u[k] ELSE d[k]]

\* del d[k]
Remove(d, k) == [j \in DOMAIN d \ {k} |-> d[j]]

(***************************************************************************)
(* session_manager.InMemorySessionService, on the dict self.sessions.      *)
(***************************************************************************)
new_session(session_id, t) ==
    [session_id |-> session_id, created_at |-> t, updated_at |-> t, state |-> EmptyMap]

\* mutation: an existing session is kept and only touched
create_session_KeepExisting(ss, session_id, t) ==
    IF session_id \in DOMAIN ss THEN [ss EXCEPT ![session_id].updated_at = t]
    ELSE Update(ss, [k \in {session_id} |-> new_session(session_id, t)])

create_session(ss, session_id, t) == Update(ss, [k \in {session_id} |-> new_session(session_id, t)])

\* the returned value: "None" or the session
get_session(ss, session_id) ==
    IF session_id \in DOMAIN ss THEN [kind |-> "session", session |-> ss[session_id]]
    ELSE [kind |-> "None"]

\* mutation: the new map replaces the state
merge_state_Replace(state, new_state) == new_state

\* session["state"].update(new_state)
merge_state(state, new_state) == Update(state, new_state)

\* mutation: an unknown identifier gets a session with the new state
update_session_Upsert(ss, session_id, new_state, t) ==
    IF session_id \notin DOMAIN ss
    THEN Update(ss, [k \in {session_id} |->
                       [session_id |-> session_id, created_at |-> t, updated_at |-> t,
                        state |-> new_state]])
    ELSE [ss EXCEPT ![session_id].state = merge_state(@, new_state),
                    ![session_id].updated_at = t]

\* mutation: the merge leaves updated_at as it was
update_session_StaleTime(ss, session_id, new_state, t) ==
    IF session_id \notin DOMAIN ss THEN ss
    ELSE [ss EXCEPT ![session_id].state = merge_state(@, new_state)]

update_session(ss, session_id, new_state, t) ==
    IF session_id \notin DOMAIN ss THEN ss
    ELSE [ss EXCEPT ![session_id].state = merge_state(@, new_state),
                    ![session_id].updated_at = t]

update_session_ret(ss, session_id) == IF session_id \in DOMAIN ss THEN "session" ELSE "None"

delete_session(ss, session_id) == IF session_id \in DOMAIN ss THEN Remove(ss, session_id) ELSE ss

delete_session_ret(ss, session_id) == IF session_id \in DOMAIN ss THEN "True" ELSE "False"

list_sessions(ss) == {ss[i] : i \in DOMAIN ss}

(***************************************************************************)
(* tools.py                                                                *)
(***************************************************************************)
Stages == <<"Seed", "Series A", "Series B", "Public">>

EmployeeCounts == <<25, 120, 500, 2000, 10000>>

\* random.choice(list): the entries the model draws
Choice(list) == {list[i] : i \in {j \in 1..Len(list) : j <= MaxChoice}}

EnrichmentOn(cfg) == cfg.ENABLE_EXTERNAL_ENRICHMENT /\ cfg.ENRICHMENT_API_KEY # ""

call_enrichment(company_name) ==
    [industry |-> "SaaS",
     funding  |-> "Series C",
     website  |-> "https://www." \o LowerNoSpace(company_name, 1) \o ".com",
     summary  |-> company_name \o " appears to be a SaaS company (from enrichment)."]

\* stage and employee_count_est are the two random.choice draws
research_company(company_name_in, stage, employee_count_est, cfg) ==
    LET company_name == Strip(safe_str(company_name_in))
        baseline == [company_name |-> company_name,
                     industry |-> "Technology / SaaS",
                     stage |-> stage,
                     employee_count_est |-> employee_count_est,
                     summary |-> company_name \o
                        " is a company operating in the Technology vertical (deterministic mock)."]
        merged == IF EnrichmentOn(cfg) THEN Update(baseline, call_enrichment(company_name))
                  ELSE baseline
    IN  [merged EXCEPT !.summary = scrub_output_for_pii(@)]

\* mutation: the intent score is added without its weight of 3
Score100_IntentUnweighted(employee_count, intent_score) == employee_count + 100 * intent_score

\* 100 * round(employee_count / 100.0 + intent_score * 3, 2): the sum has at
\* most two decimals, so rounding to two places returns it
Score100(employee_count, intent_score) == employee_count + 300 * intent_score

\* mutation: the thresholds are compared with >
TierOf_Strict(score100) == IF score100 > 1200 THEN "A" ELSE IF score100 > 600 THEN "B" ELSE "C"

TierOf(score100) == IF score100 >= 1200 THEN "A" ELSE IF score100 >= 600 THEN "B" ELSE "C"

\* the field score holds the score in hundredths
score_lead(company_name, employee_count, intent_score) ==
    [company_name |-> company_name,
     score |-> Score100(employee_count, intent_score),
     tier  |-> TierOf(Score100(employee_count, intent_score))]

(***************************************************************************)
(* Python values handed to score_lead: [t |-> "int", v |-> n], a str       *)
(* [t |-> "str", s |-> text] or None [t |-> "None"]; int(x) of them.       *)
(***************************************************************************)
PyInt(n) == [t |-> "int", v |-> n]

PyStr(text) == [t |-> "str", s |-> text]

PyNone == [t |-> "None"]

DigitVal(c) ==
    CASE c = "0" -> 0 [] c = "1" -> 1 [] c = "2" -> 2 [] c = "3" -> 3 [] c = "4" -> 4
      [] c = "5" -> 5 [] c = "6" -> 6 [] c = "7" -> 7 [] c = "8" -> 8 [] c = "9" -> 9

\* the digits of an int literal: what is left of the stripped text behind
\* an optional sign
LiteralDigits(text) ==
    LET b == Strip(text)
    IN  IF Len(b) > 0 /\ Ch(b, 1) \in {"+", "-"} THEN SubSeq(b, 2, Len(b)) ELSE b

\* int(text) does not raise ValueError
IsIntLiteral(text) ==
    /\ Len(LiteralDigits(text)) > 0
    /\ \A i \in 1..Len(LiteralDigits(text)) : Ch(LiteralDigits(text), i) \in Digit

RECURSIVE DigitsValue(_)
DigitsValue(d) ==
    IF d = "" THEN 0
    ELSE 10 * DigitsValue(SubSeq(d, 1, Len(d) - 1)) + DigitVal(Ch(d, Len(d)))

\* int(x) raises (ValueError for a str, TypeError for None)
IntRaises(x) ==
    CASE x.t = "int"  -> FALSE
      [] x.t = "str"  -> ~IsIntLiteral(x.s)
      [] x.t = "None" -> TRUE

\* int(x) where it does not raise
IntOf(x) ==
    CASE x.t = "int" -> x.v
      [] x.t = "str" -> IF Len(Strip(x.s)) > 0 /\ Ch(Strip(x.s), 1) = "-"
                        THEN 0 - DigitsValue(LiteralDigits(x.s))
                        ELSE DigitsValue(LiteralDigits(x.s))

\* mutation: the template is signed with a contact address
Template_WithAddress(company_name, contact_name) ==
    "Hi " \o contact_name \o ",\n\n"
    \o "I noticed " \o company_name \o " is growing rapidly. We help teams like yours accelerate sales operations by automating lead qualification and outreach.\n\n"
    \o "If you're open to a 15-minute sync, I'd love to share how companies reduced SDR time by 30%.\n\n"
    \o "Best,\nSales-ops team (sales-ops@example.com)"

Template(company_name, contact_name) ==
    "Hi " \o contact_name \o ",\n\n"
    \o "I noticed " \o company_name \o " is growing rapidly. We help teams like yours accelerate sales operations by automating lead qualification and outreach.\n\n"
    \o "If you're open to a 15-minute sync, I'd love to share how companies reduced SDR time by 30%.\n\n"
    \o "Best,\nSales-ops team"

\* attempts=2 of the retry around call_model
PolishAttempts == 2

(***************************************************************************)
(* agent.py                                                                *)
(***************************************************************************)
summarize_lead(research_data) ==
    "Company: " \o research_data.company_name \o "\n"
    \o "Industry: " \o research_data.industry \o "\n"
    \o "Stage: " \o research_data.stage \o "\n"
    \o "Employees: " \o ToString(research_data.employee_count_est) \o "\n"
    \o "Summary: " \o research_data.summary

MinEmailLen == 10

\* mutation: a string of exactly MinEmailLen characters is too short
validate_email_OffByOne(email) ==
    IF email = "" \/ Len(email) <= MinEmailLen THEN FALSE
    ELSE IF ~HasChar(email, "@") THEN FALSE
    ELSE TRUE

\* mutation: the length is not looked at
validate_email_NoLength(email) ==
    IF email = "" THEN FALSE
    ELSE IF ~HasChar(email, "@") THEN FALSE
    ELSE TRUE

validate_email(email) ==
    IF email = "" \/ Len(email) < MinEmailLen THEN FALSE
    ELSE IF ~HasChar(email, "@") THEN FALSE
    ELSE TRUE

\* mutation: the fallback text leaves the company out
FallbackEmail_NoCompany(company_name, contact_name) ==
    "Hi " \o contact_name \o ",\n\n"
    \o "Checking in. We have some updates that might interest you.\n\n"
    \o "Best,\nSales Team"

FallbackEmail(company_name, contact_name) ==
    "Hi " \o contact_name \o ",\n\n"
    \o "Checking in regarding " \o company_name \o ". We have some updates that might interest you.\n\n"
    \o "Best,\nSales Team"

\* intent_score = 5
IntentScore == 5

\* mutation: the initial attempt is given the model
InitialModelClient_Polished == TRUE

\* model_client of the initial attempt: None
InitialModelClient == FALSE

\* model_client of the repair attempt: the module's Gemini model
RepairModelClient == TRUE

\* mutation: the precondition is not checked and the lookup fails instead
MissingResearchError_Unchecked == "KeyError"

\* mutation: the research record is stored under another key
ResearchUpdate_OtherKey(rd) == [research_data |-> rd]

\* {"research": research_data}
ResearchUpdate(rd) == [research |-> rd]

\* the error the failed precondition raises
MissingResearchError == "ValueError"

\* mutation: every branch stores "valid"
SetStatus_AlwaysValid(od, status) == Update(od, [validation_status |-> "valid"])

\* outreach_data["validation_status"] = status
SetStatus(od, status) == Update(od, [validation_status |-> status])

\* the branch taken on the first is_valid
AfterValidate1(valid) == IF valid THEN "oa_mark_valid" ELSE "oa_gen2"

\* mutation: a failed repair is tried again
AfterValidate2_Loop(valid) == IF valid THEN "oa_mark_repaired" ELSE "oa_gen2"

\* the branch taken on the second is_valid
AfterValidate2(valid) == IF valid THEN "oa_mark_repaired" ELSE "oa_fallback"

\* str() of the float h / 100 for h >= 0
FloatStr(h) ==
    ToString(h \div 100) \o "." \o
    (IF h % 100 = 0 THEN "0"
     ELSE IF h % 10 = 0 THEN ToString((h % 100) \div 10)
     ELSE IF h % 100 < 10 THEN "0" \o ToString(h % 100)
     ELSE ToString(h % 100))

ScoreExplanation(score_data, employee_count, intent_score) ==
    "Score " \o FloatStr(score_data.score) \o " (Tier " \o score_data.tier \o ") based on "
    \o ToString(employee_count) \o " employees and intent " \o ToString(intent_score) \o "."

(***************************************************************************)
(* Inputs of the model.                                                    *)
(***************************************************************************)
CompanyNames == {"Acme Corp", " sales@acme.io "}

ContactNames == {"Alice"}

Tiers == {"A", "B", "C"}

\* texts the polish capability may answer with
ModelTexts == {"",
               "Happy to help your team.",
               "a@b.cccc1",
               "Please write to bob@corp.com or call +1 555-123-4567.",
               "Hi there @ Acme, open to a quick sync?"}

\* uuid.uuid4() of the n-th Coordinator_run: a fresh identifier
Uuid(n) == "uuid-" \o ToString(n)

\* identifiers a caller can make up himself
ExternalIds == {"ext-1", "ext-2"}

StoreKeys == {"note", "owner"}

StoreVals == {"v1", "v2"}

\* partial maps a direct caller of update_session passes
PartialMaps == UNION {[ks -> StoreVals] : ks \in SUBSET StoreKeys}

Configs == {[ENABLE_EXTERNAL_ENRICHMENT |-> FALSE, ENRICHMENT_API_KEY |-> ""],
            [ENABLE_EXTERNAL_ENRICHMENT |-> TRUE, ENRICHMENT_API_KEY |-> "key"]}

\* values of employee_count_est in the research records a caller stores:
\* 0, the values research_company draws from, and negative ones
ResearchCounts == {-1200, -301, 0, 25, 120, 500, 2000, 10000}

\* research records a caller stores himself; the last one has no
\* employee_count_est
CallerResearch ==
    {[company_name |-> "Acme Corp", employee_count_est |-> n] : n \in ResearchCounts}
    \cup {[company_name |-> "Acme Corp"]}

\* the characters of the emails validate_email is called on: one that is
\* "@" and one that is not
EmailAlphabet == {"a", "@"}

RECURSIVE StringsOfLen(_, _)
StringsOfLen(alphabet, n) ==
    IF n = 0 THEN {""}
    ELSE {s \o c : s \in StringsOfLen(alphabet, n - 1), c \in alphabet}

EmailInputs ==
    UNION {StringsOfLen(EmailAlphabet, n) : n \in 0..MaxEmailLen}
    \cup {"a@b.cccc1", "a@b.ccccc1", "alice@acme.io", "no at sign in this text",
          "@", "          ", "\n\n\n\n\n@\n\n\n\n"}
    \cup {FallbackEmail(c, n) : c \in CompanyNames, n \in ContactNames}
    \cup {Template(c, n) : c \in CompanyNames, n \in ContactNames}

\* what a caller hands to score_lead as employee_count and intent_score
EmployeeInputs ==
    {PyInt(n) : n \in 0..MaxEmployeeCount}
    \cup {PyStr("120"), PyStr(" 42 "), PyStr("abc"), PyStr(""), PyStr("12.5"), PyNone}

IntentInputs ==
    {PyInt(n) : n \in (0 - MaxIntent)..MaxIntent}
    \cup {PyStr("-3"), PyStr("five"), PyNone}

\* what fn returns or raises in a call of retry
FnValues == {"r1", "r2"}

FnErrors == {"e1", "e2"}

(***************************************************************************)
(* State.                                                                  *)
(***************************************************************************)
VARIABLES
    config,            \* config.ENABLE_EXTERNAL_ENRICHMENT, config.ENRICHMENT_API_KEY
    sessions,          \* session_service.sessions
    now,               \* last value read from time.time()
    uuid_count,        \* number of identifiers uuid4 has handed out
    pc,                \* position of the running call, "idle" between calls
    top,               \* the function the caller invoked
    args,              \* its arguments
    research_data,     \* locals of ResearchAgent and OutreachAgent
    research_results,  \* local of Coordinator_run
    score_data,
    outreach_data,
    email_content,
    is_valid,
    go,                \* frame of generate_outreach: model_client, tier, return position
    retry_i,           \* loop variable i of retry
    last_exc,          \* local last_exc of retry
    hist,              \* what the running call has done so far
    result,            \* outcome of the last finished call
    store_op,          \* the last call of the session store
    runs,              \* calls of the workflow functions so far
    store_ops,         \* direct calls of the session store so far
    budget             \* how many of each the behaviour may make

vars == <<config, sessions, now, uuid_count, pc, top, args, research_data,
          research_results, score_data, outreach_data, email_content, is_valid,
          go, retry_i, last_exc, hist, result, store_op, runs, store_ops, budget>>

locals == <<research_data, research_results, score_data, outreach_data,
            email_content, is_valid, go, retry_i, last_exc>>

NoArgs == [company_name |-> "", contact_name |-> "", session_id |-> "", tier |-> ""]

NoGo == [model_client |-> FALSE, tier |-> "", ret |-> ""]

NoHist == [first_valid |-> "unset", second_valid |-> "unset",
           gen_initial |-> 0, gen_repair |-> 0, gen_direct |-> 0,
           polish_calls |-> 0, sleeps |-> 0,
           score_calls |-> 0, status_writes |-> 0, store_writes |-> 0,
           model_text |-> "", trace |-> <<>>,
           prev |-> [fn |-> "", kind |-> "none", session_id |-> "", ret |-> ""]]

NoResult == [fn |-> "", kind |-> "none"]

\* warning: the call logged a warning
NoStoreOp == [op |-> "", session_id |-> "", new_state |-> EmptyMap, ret |-> "",
              warning |-> FALSE]

KnownIds == ExternalIds \cup {Uuid(n) : n \in 1..uuid_count}

\* a read of time.time(): not before the last value read
Times == now..MaxTime

Start ==
    /\ config \in Configs
    /\ sessions = EmptyMap
    /\ now = 0
    /\ uuid_count = 0
    /\ pc = "idle"
    /\ top = ""
    /\ args = NoArgs
    /\ research_data = EmptyMap
    /\ research_results = EmptyMap
    /\ score_data = EmptyMap
    /\ outreach_data = EmptyMap
    /\ email_content = ""
    /\ is_valid = FALSE
    /\ go = NoGo
    /\ retry_i = 0
    /\ last_exc = "None"
    /\ hist = NoHist
    /\ result = NoResult
    /\ store_op = NoStoreOp
    /\ runs = 0
    /\ store_ops = 0

\* the workflow and its callers
Init ==
    /\ Start
    /\ budget = [runs |-> MaxRuns, store_ops |-> MaxStoreOps]

\* the session store driven alone
InitStore ==
    /\ Start
    /\ budget = [runs |-> 0, store_ops |-> MaxDirectOps]

\* one Coordinator_run, with another caller of the shared store
InitShared ==
    /\ Start
    /\ budget = [runs |-> MaxRuns, store_ops |-> MaxRacingOps]

\* the stages called one after the other on sessions the caller creates
InitStages ==
    /\ Start
    /\ budget = [runs |-> MaxStageCalls, store_ops |-> 1]

\* OutreachAgent called on a session whose research record the caller stored
InitOutreach ==
    /\ Start
    /\ budget = [runs |-> MaxRuns, store_ops |-> MaxStageCalls]

\* one call of a function that keeps no state between calls
InitTools ==
    /\ Start
    /\ budget = [runs |-> 1, store_ops |-> 0]

ClearLocals ==
    /\ research_data' = EmptyMap
    /\ research_results' = EmptyMap
    /\ score_data' = EmptyMap
    /\ outreach_data' = EmptyMap
    /\ email_content' = ""
    /\ is_valid' = FALSE
    /\ go' = NoGo
    /\ retry_i' = 0
    /\ last_exc' = "None"

\* the call is over: back to the caller of the top-level function
Finish(res) ==
    /\ result' = res
    /\ pc' = "idle"
    /\ ClearLocals

Log(h, ev) == [h EXCEPT !.trace = Append(@, ev)]

(***************************************************************************)
(* Direct calls of the session store.                                      *)
(***************************************************************************)
StoreIdle ==
    /\ pc = "idle"
    /\ store_ops < budget.store_ops

\* result and hist describe the last call of a workflow function only as
\* long as no other call followed it
StoreFrame ==
    /\ store_ops' = store_ops + 1
    /\ top' = ""
    /\ args' = NoArgs
    /\ hist' = NoHist
    /\ result' = NoResult
    /\ UNCHANGED <<config, uuid_count, pc, locals, runs, budget>>

CreateSession(id) ==
    /\ StoreIdle
    /\ \E t \in Times :
          /\ now' = t
          /\ sessions' = create_session(sessions, id, t)
    /\ store_op' = [op |-> "create", session_id |-> id, new_state |-> EmptyMap, ret |-> "session",
                    warning |-> id \in DOMAIN sessions]
    /\ StoreFrame

GetSession(id) ==
    /\ StoreIdle
    /\ store_op' = [op |-> "get", session_id |-> id, new_state |-> EmptyMap,
                    ret |-> get_session(sessions, id).kind,
                    warning |-> FALSE]
    /\ UNCHANGED <<sessions, now>>
    /\ StoreFrame

UpdateSession(id, new_state) ==
    /\ StoreIdle
    /\ IF id \in DOMAIN sessions
       THEN \E t \in Times :
               /\ now' = t
               /\ sessions' = update_session(sessions, id, new_state, t)
       ELSE /\ sessions' = update_session(sessions, id, new_state, now)
            /\ now' = now
    /\ store_op' = [op |-> "update", session_id |-> id, new_state |-> new_state,
                    ret |-> update_session_ret(sessions, id),
                    warning |-> id \notin DOMAIN sessions]
    /\ StoreFrame

DeleteSession(id) ==
    /\ StoreIdle
    /\ sessions' = delete_session(sessions, id)
    /\ store_op' = [op |-> "delete", session_id |-> id, new_state |-> EmptyMap,
                    ret |-> delete_session_ret(sessions, id),
                    warning |-> FALSE]
    /\ UNCHANGED now
    /\ StoreFrame

ListSessions ==
    /\ StoreIdle
    /\ store_op' = [op |-> "list", session_id |-> "", new_state |-> EmptyMap, ret |-> "list",
                    warning |-> FALSE]
    /\ UNCHANGED <<sessions, now>>
    /\ StoreFrame

(***************************************************************************)
(* Calls of the workflow functions.  The caller is single-threaded: a call *)
(* starts when no other call is running.                                   *)
(***************************************************************************)
CanCall ==
    /\ pc = "idle"
    /\ runs < budget.runs

Enter(fn, a) ==
    /\ top' = fn
    /\ args' = a
    /\ result' = NoResult
    /\ runs' = runs + 1
    /\ UNCHANGED <<config, store_ops, budget, locals>>

\* agent.Coordinator_run up to the call of ResearchAgent
Call_Coordinator_run(company_name, contact_name) ==
    /\ CanCall
    /\ LET session_id == Uuid(uuid_count + 1)
       IN  /\ uuid_count' = uuid_count + 1
           /\ \E t \in Times :
                 /\ now' = t
                 /\ sessions' = create_session(sessions, session_id, t)
           /\ store_op' = [op |-> "create", session_id |-> session_id,
                           new_state |-> EmptyMap, ret |-> "session",
                    warning |-> session_id \in DOMAIN sessions]
           /\ Enter("Coordinator_run", [company_name |-> company_name,
                                        contact_name |-> contact_name,
                                        session_id |-> session_id, tier |-> ""])
    /\ hist' = Log(NoHist, "create_session")
    /\ pc' = "ra_research"

\* the call the caller made before this one: the function, how it ended,
\* its session and what its last call of the store returned
LastCall == [fn |-> top, kind |-> result.kind, session_id |-> args.session_id,
             ret |-> store_op.ret]

Call_ResearchAgent(company_name, session_id) ==
    /\ CanCall
    /\ Enter("ResearchAgent", [company_name |-> company_name, contact_name |-> "",
                               session_id |-> session_id, tier |-> ""])
    /\ hist' = NoHist
    /\ pc' = "ra_research"
    /\ UNCHANGED <<sessions, now, uuid_count, store_op>>

Call_OutreachAgent(company_name, contact_name, session_id) ==
    /\ CanCall
    /\ Enter("OutreachAgent", [company_name |-> company_name,
                               contact_name |-> contact_name,
                               session_id |-> session_id, tier |-> ""])
    /\ hist' = [NoHist EXCEPT !.prev = LastCall]
    /\ pc' = "oa_load"
    /\ UNCHANGED <<sessions, now, uuid_count, store_op>>

\* tools.generate_outreach called directly (model_client=None) or through
\* agent.generate_outreach_wrapper (model_client=model)
Call_generate_outreach(company_name, contact_name, tier, model_client) ==
    /\ CanCall
    /\ top' = "generate_outreach"
    /\ args' = [company_name |-> company_name, contact_name |-> contact_name,
                session_id |-> "", tier |-> tier]
    /\ result' = NoResult
    /\ runs' = runs + 1
    /\ go' = [model_client |-> model_client, tier |-> tier, ret |-> "go_return"]
    /\ hist' = Log([NoHist EXCEPT !.gen_direct = 1],
                   IF model_client THEN "generate_outreach:model"
                   ELSE "generate_outreach:None")
    /\ pc' = "go_start"
    /\ UNCHANGED <<config, store_ops, budget, sessions, now, uuid_count, store_op,
                   research_data, research_results, score_data, outreach_data,
                   email_content, is_valid, retry_i, last_exc>>

Step == UNCHANGED <<config, uuid_count, top, args, runs, store_ops, budget>>

(***************************************************************************)
(* agent.ResearchAgent                                                     *)
(***************************************************************************)
\* steps 1 and 2: research_company, then summarize_lead into lead_summary
RA_Research ==
    /\ pc = "ra_research"
    /\ \E stage \in Choice(Stages), employee_count_est \in Choice(EmployeeCounts) :
          LET rd == research_company(args.company_name, stage, employee_count_est, config)
          IN  research_data' = Update(rd, [lead_summary |-> summarize_lead(rd)])
    /\ pc' = "ra_save"
    /\ Step
    /\ UNCHANGED <<sessions, now, research_results, score_data, outreach_data,
                   email_content, is_valid, go, retry_i, last_exc, hist, result, store_op>>

\* mutation: the stage checks what update_session returned and raises on None
RA_Save_Checked ==
    /\ pc = "ra_save"
    /\ LET new_state == ResearchUpdate(research_data)
       IN  /\ IF args.session_id \in DOMAIN sessions
              THEN \E t \in Times :
                      /\ now' = t
                      /\ sessions' = update_session(sessions, args.session_id, new_state, t)
              ELSE /\ sessions' = update_session(sessions, args.session_id, new_state, now)
                   /\ now' = now
           /\ store_op' = [op |-> "update", session_id |-> args.session_id,
                           new_state |-> new_state,
                           ret |-> update_session_ret(sessions, args.session_id),
                           warning |-> args.session_id \notin DOMAIN sessions]
    /\ hist' = Log([hist EXCEPT !.store_writes = @ + 1], "update_session:research")
    /\ IF args.session_id \notin DOMAIN sessions
       THEN Finish([fn |-> top, kind |-> "raise", value |-> "SessionNotFound"])
       ELSE IF top = "Coordinator_run"
       THEN /\ research_results' = research_data
            /\ pc' = "oa_load"
            /\ UNCHANGED <<research_data, score_data, outreach_data, email_content,
                           is_valid, go, retry_i, last_exc, result>>
       ELSE Finish([fn |-> "ResearchAgent", kind |-> "return", value |-> research_data])
    /\ Step

\* step 3 and the return; Coordinator_run goes on with OutreachAgent
RA_Save ==
    /\ pc = "ra_save"
    /\ LET new_state == ResearchUpdate(research_data)
       IN  /\ IF args.session_id \in DOMAIN sessions
              THEN \E t \in Times :
                      /\ now' = t
                      /\ sessions' = update_session(sessions, args.session_id, new_state, t)
              ELSE /\ sessions' = update_session(sessions, args.session_id, new_state, now)
                   /\ now' = now
           /\ store_op' = [op |-> "update", session_id |-> args.session_id,
                           new_state |-> new_state,
                           ret |-> update_session_ret(sessions, args.session_id),
                    warning |-> args.session_id \notin DOMAIN sessions]
    /\ hist' = Log([hist EXCEPT !.store_writes = @ + 1], "update_session:research")
    /\ IF top = "Coordinator_run"
       THEN /\ research_results' = research_data
            /\ pc' = "oa_load"
            /\ UNCHANGED <<research_data, score_data, outreach_data, email_content,
                           is_valid, go, retry_i, last_exc, result>>
       ELSE Finish([fn |-> "ResearchAgent", kind |-> "return", value |-> research_data])
    /\ Step

(***************************************************************************)
(* agent.OutreachAgent                                                     *)
(***************************************************************************)
HasResearch(ss, session_id) ==
    /\ get_session(ss, session_id).kind = "session"
    /\ "research" \in DOMAIN get_session(ss, session_id).session.state

\* mutation: the failed run removes its session before it raises
OA_LoadFails_Cleanup ==
    /\ pc = "oa_load"
    /\ ~HasResearch(sessions, args.session_id)
    /\ store_op' = [op |-> "delete", session_id |-> args.session_id, new_state |-> EmptyMap,
                    ret |-> delete_session_ret(sessions, args.session_id),
                    warning |-> FALSE]
    /\ sessions' = delete_session(sessions, args.session_id)
    /\ hist' = Log(hist, "get_session")
    /\ Finish([fn |-> top, kind |-> "raise", value |-> MissingResearchError])
    /\ Step
    /\ UNCHANGED now

\* step 1, precondition fails: raise ValueError
OA_LoadFails ==
    /\ pc = "oa_load"
    /\ ~HasResearch(sessions, args.session_id)
    /\ store_op' = [op |-> "get", session_id |-> args.session_id, new_state |-> EmptyMap,
                    ret |-> get_session(sessions, args.session_id).kind,
                    warning |-> FALSE]
    /\ hist' = Log(hist, "get_session")
    /\ Finish([fn |-> top, kind |-> "raise", value |-> MissingResearchError])
    /\ Step
    /\ UNCHANGED <<sessions, now>>

\* step 1, precondition holds
OA_Load ==
    /\ pc = "oa_load"
    /\ HasResearch(sessions, args.session_id)
    /\ store_op' = [op |-> "get", session_id |-> args.session_id, new_state |-> EmptyMap,
                    ret |-> get_session(sessions, args.session_id).kind,
                    warning |-> FALSE]
    /\ research_data' = get_session(sessions, args.session_id).session.state.research
    /\ hist' = Log(hist, "get_session:research")
    /\ pc' = "oa_score"
    /\ Step
    /\ UNCHANGED <<sessions, now, research_results, score_data, outreach_data,
                   email_content, is_valid, go, retry_i, last_exc, result>>

\* research_data.get("employee_count_est", 0)
EmployeeCountOf(rd) == IF "employee_count_est" \in DOMAIN rd THEN rd.employee_count_est ELSE 0

\* step 2
OA_Score ==
    /\ pc = "oa_score"
    /\ score_data' = score_lead(args.company_name, EmployeeCountOf(research_data), IntentScore)
    /\ hist' = [hist EXCEPT !.score_calls = @ + 1]
    /\ pc' = "oa_gen1"
    /\ Step
    /\ UNCHANGED <<sessions, now, research_data, research_results, outreach_data,
                   email_content, is_valid, go, retry_i, last_exc, result, store_op>>

\* step 3: generate_outreach(..., model_client=None)
OA_Gen1 ==
    /\ pc = "oa_gen1"
    /\ go' = [model_client |-> InitialModelClient, tier |-> score_data.tier,
              ret |-> "oa_validate1"]
    /\ hist' = Log([hist EXCEPT !.gen_initial = @ + 1],
                   IF InitialModelClient THEN "generate_outreach:model"
                   ELSE "generate_outreach:None")
    /\ pc' = "go_start"
    /\ Step
    /\ UNCHANGED <<sessions, now, research_data, research_results, score_data,
                   outreach_data, email_content, is_valid, retry_i, last_exc, result, store_op>>

\* step 4: email_content and is_valid of the first email
OA_Validate1 ==
    /\ pc = "oa_validate1"
    /\ email_content' = outreach_data.email
    /\ is_valid' = validate_email(outreach_data.email)
    /\ hist' = [hist EXCEPT !.first_valid = IF validate_email(outreach_data.email)
                                            THEN "yes" ELSE "no"]
    /\ pc' = AfterValidate1(validate_email(outreach_data.email))
    /\ Step
    /\ UNCHANGED <<sessions, now, research_data, research_results, score_data,
                   outreach_data, go, retry_i, last_exc, result, store_op>>

\* the else branch: validation_status = "valid"
OA_MarkValid ==
    /\ pc = "oa_mark_valid"
    /\ outreach_data' = SetStatus(outreach_data, "valid")
    /\ hist' = [hist EXCEPT !.status_writes = @ + 1]
    /\ pc' = "oa_explain"
    /\ Step
    /\ UNCHANGED <<sessions, now, research_data, research_results, score_data,
                   email_content, is_valid, go, retry_i, last_exc, result, store_op>>

\* the repair: generate_outreach(..., model_client=model)
OA_Gen2 ==
    /\ pc = "oa_gen2"
    /\ go' = [model_client |-> RepairModelClient, tier |-> score_data.tier,
              ret |-> "oa_validate2"]
    /\ hist' = Log([hist EXCEPT !.gen_repair = @ + 1],
                   IF RepairModelClient THEN "generate_outreach:model"
                   ELSE "generate_outreach:None")
    /\ pc' = "go_start"
    /\ Step
    /\ UNCHANGED <<sessions, now, research_data, research_results, score_data,
                   outreach_data, email_content, is_valid, retry_i, last_exc, result, store_op>>

OA_Validate2 ==
    /\ pc = "oa_validate2"
    /\ email_content' = outreach_data.email
    /\ is_valid' = validate_email(outreach_data.email)
    /\ hist' = [hist EXCEPT !.second_valid = IF validate_email(outreach_data.email)
                                             THEN "yes" ELSE "no"]
    /\ pc' = AfterValidate2(validate_email(outreach_data.email))
    /\ Step
    /\ UNCHANGED <<sessions, now, research_data, research_results, score_data,
                   outreach_data, go, retry_i, last_exc, result, store_op>>

OA_MarkRepaired ==
    /\ pc = "oa_mark_repaired"
    /\ outreach_data' = SetStatus(outreach_data, "repaired")
    /\ hist' = [hist EXCEPT !.status_writes = @ + 1]
    /\ pc' = "oa_explain"
    /\ Step
    /\ UNCHANGED <<sessions, now, research_data, research_results, score_data,
                   email_content, is_valid, go, retry_i, last_exc, result, store_op>>

\* the fallback branch: the fixed text replaces the email
OA_Fallback ==
    /\ pc = "oa_fallback"
    /\ email_content' = FallbackEmail(args.company_name, args.contact_name)
    /\ outreach_data' = SetStatus(
          Update(outreach_data,
                 [email |-> FallbackEmail(args.company_name, args.contact_name)]),
          "fallback")
    /\ hist' = Log([hist EXCEPT !.status_writes = @ + 1], "fallback")
    /\ pc' = "oa_explain"
    /\ Step
    /\ UNCHANGED <<sessions, now, research_data, research_results, score_data,
                   is_valid, go, retry_i, last_exc, result, store_op>>

\* step 5
OA_Explain ==
    /\ pc = "oa_explain"
    /\ outreach_data' = Update(outreach_data,
          [score_explanation |-> ScoreExplanation(score_data, EmployeeCountOf(research_data),
                                                  IntentScore)])
    /\ pc' = "oa_save"
    /\ Step
    /\ UNCHANGED <<sessions, now, research_data, research_results, score_data,
                   email_content, is_valid, go, retry_i, last_exc, hist, result, store_op>>

\* step 6 and the return; Coordinator_run returns right after
OA_Save ==
    /\ pc = "oa_save"
    /\ LET res == [score |-> score_data, outreach |-> outreach_data]
       IN  /\ IF args.session_id \in DOMAIN sessions
              THEN \E t \in Times :
                      /\ now' = t
                      /\ sessions' = update_session(sessions, args.session_id, res, t)
              ELSE /\ sessions' = update_session(sessions, args.session_id, res, now)
                   /\ now' = now
           /\ store_op' = [op |-> "update", session_id |-> args.session_id,
                           new_state |-> res,
                           ret |-> update_session_ret(sessions, args.session_id),
                    warning |-> args.session_id \notin DOMAIN sessions]
           /\ IF top = "Coordinator_run"
              THEN Finish([fn |-> "Coordinator_run", kind |-> "return",
                           value |-> [session_id |-> args.session_id,
                                      research_results |-> research_results,
                                      outreach_results |-> res]])
              ELSE Finish([fn |-> "OutreachAgent", kind |-> "return", value |-> res])
    /\ hist' = Log([hist EXCEPT !.store_writes = @ + 1], "update_session:score,outreach")
    /\ Step

(***************************************************************************)
(* tools.generate_outreach and the tools.retry loop around call_model      *)
(***************************************************************************)
GoFrame ==
    /\ Step
    /\ UNCHANGED <<sessions, now, research_data, research_results, score_data,
                   email_content, is_valid, go, result, store_op>>

\* model_client is None: the template is returned
GO_NoModel ==
    /\ pc = "go_start"
    /\ ~go.model_client
    /\ outreach_data' = [email |-> Template(args.company_name, args.contact_name),
                         tier |-> go.tier]
    /\ pc' = go.ret
    /\ UNCHANGED <<retry_i, last_exc, hist>>
    /\ GoFrame

\* model_client is given: retry(call_model, attempts=2, delay=0.5) starts
GO_Polish ==
    /\ pc = "go_start"
    /\ go.model_client
    /\ retry_i' = 0
    /\ last_exc' = "None"
    /\ pc' = "retry_call"
    /\ UNCHANGED <<outreach_data, hist>>
    /\ GoFrame

\* fn() returns: retry returns it, the scrubbed text is the email
Retry_CallReturns(text) ==
    /\ pc = "retry_call"
    /\ retry_i < PolishAttempts
    /\ hist' = Log([hist EXCEPT !.polish_calls = @ + 1, !.model_text = text],
                   "call_model:returns")
    /\ outreach_data' = [email |-> scrub_output_for_pii(text), tier |-> go.tier]
    /\ pc' = go.ret
    /\ UNCHANGED <<retry_i, last_exc>>
    /\ GoFrame

\* fn() raises: last_exc is kept, the loop sleeps and goes on
Retry_CallRaises ==
    /\ pc = "retry_call"
    /\ retry_i < PolishAttempts
    /\ hist' = Log([hist EXCEPT !.polish_calls = @ + 1, !.sleeps = @ + 1],
                   "call_model:raises")
    /\ retry_i' = retry_i + 1
    /\ last_exc' = "Exception"
    /\ UNCHANGED <<pc, outreach_data>>
    /\ GoFrame

\* mutation: generate_outreach does not catch what retry raises
Retry_Exhausted_Propagates ==
    /\ pc = "retry_call"
    /\ retry_i >= PolishAttempts
    /\ hist' = hist
    /\ Finish([fn |-> top, kind |-> "raise", value |-> "Exception"])
    /\ Step
    /\ UNCHANGED <<sessions, now, store_op>>

\* the loop is over: retry raises last_exc, generate_outreach catches it
\* and returns the template
Retry_Exhausted ==
    /\ pc = "retry_call"
    /\ retry_i >= PolishAttempts
    /\ outreach_data' = [email |-> Template(args.company_name, args.contact_name),
                         tier |-> go.tier]
    /\ pc' = go.ret
    /\ UNCHANGED <<retry_i, last_exc, hist>>
    /\ GoFrame

\* generate_outreach was the top-level call: it returns to the caller
GO_Return ==
    /\ pc = "go_return"
    /\ hist' = hist
    /\ Finish([fn |-> "generate_outreach", kind |-> "return", value |-> outreach_data])
    /\ Step
    /\ UNCHANGED <<sessions, now, store_op>>

(***************************************************************************)
(* Another caller of session_service while a Coordinator_run is going on:  *)
(* the store is a module-level object without locking, each of its methods *)
(* runs between two steps of the workflow, on the session of the run.      *)
(***************************************************************************)
Racing ==
    /\ pc # "idle"
    /\ top = "Coordinator_run"
    /\ store_ops < budget.store_ops

RacingFrame ==
    /\ store_ops' = store_ops + 1
    /\ UNCHANGED <<config, uuid_count, pc, top, args, hist, result, locals, runs, budget>>

Other_create_session ==
    /\ Racing
    /\ \E t \in Times :
          /\ now' = t
          /\ sessions' = create_session(sessions, args.session_id, t)
    /\ store_op' = [op |-> "create", session_id |-> args.session_id,
                    new_state |-> EmptyMap, ret |-> "session",
                    warning |-> args.session_id \in DOMAIN sessions]
    /\ RacingFrame

Other_update_session(new_state) ==
    /\ Racing
    /\ IF args.session_id \in DOMAIN sessions
       THEN \E t \in Times :
               /\ now' = t
               /\ sessions' = update_session(sessions, args.session_id, new_state, t)
       ELSE /\ sessions' = update_session(sessions, args.session_id, new_state, now)
            /\ now' = now
    /\ store_op' = [op |-> "update", session_id |-> args.session_id,
                    new_state |-> new_state,
                    ret |-> update_session_ret(sessions, args.session_id),
                    warning |-> args.session_id \notin DOMAIN sessions]
    /\ RacingFrame

Other_delete_session ==
    /\ Racing
    /\ sessions' = delete_session(sessions, args.session_id)
    /\ store_op' = [op |-> "delete", session_id |-> args.session_id,
                    new_state |-> EmptyMap,
                    ret |-> delete_session_ret(sessions, args.session_id),
                    warning |-> FALSE]
    /\ UNCHANGED now
    /\ RacingFrame

(***************************************************************************)
(* Direct calls of agent.validate_email, tools.score_lead and tools.retry. *)
(***************************************************************************)
ToolFrame ==
    /\ runs' = runs + 1
    /\ hist' = NoHist
    /\ UNCHANGED <<config, sessions, now, uuid_count, store_op, store_ops, budget, locals>>

Call_validate_email(email) ==
    /\ CanCall
    /\ top' = "validate_email"
    /\ args' = [email |-> email]
    /\ result' = [fn |-> "validate_email", kind |-> "return", value |-> validate_email(email)]
    /\ pc' = "idle"
    /\ ToolFrame

\* the try block of the coercion raised: ValueError, no result
Call_score_lead_Raises(company_name, employee_count, intent_score) ==
    /\ CanCall
    /\ IntRaises(employee_count) \/ IntRaises(intent_score)
    /\ top' = "score_lead"
    /\ args' = [company_name |-> company_name, employee_count |-> employee_count,
                intent_score |-> intent_score]
    /\ result' = [fn |-> "score_lead", kind |-> "raise", value |-> "ValueError"]
    /\ pc' = "idle"
    /\ ToolFrame

Call_score_lead(company_name, employee_count, intent_score) ==
    /\ CanCall
    /\ ~IntRaises(employee_count)
    /\ ~IntRaises(intent_score)
    /\ top' = "score_lead"
    /\ args' = [company_name |-> company_name, employee_count |-> employee_count,
                intent_score |-> intent_score]
    /\ result' = [fn |-> "score_lead", kind |-> "return",
                  value |-> score_lead(company_name, IntOf(employee_count),
                                       IntOf(intent_score))]
    /\ pc' = "idle"
    /\ ToolFrame

\* retry(fn, attempts=attempts): last_exc = None, the loop starts
Call_retry(attempts) ==
    /\ CanCall
    /\ top' = "retry"
    /\ args' = [attempts |-> attempts]
    /\ result' = NoResult
    /\ runs' = runs + 1
    /\ hist' = NoHist
    /\ retry_i' = 0
    /\ last_exc' = "None"
    /\ pc' = "rt_loop"
    /\ UNCHANGED <<config, sessions, now, uuid_count, store_op, store_ops, budget,
                   research_data, research_results, score_data, outreach_data,
                   email_content, is_valid, go>>

RetryFrame == UNCHANGED <<config, sessions, now, uuid_count, store_op, store_ops, budget,
                          top, args, runs>>

\* mutation: the value of a successful call is dropped and the loop goes on
RT_FnReturns_GoesOn(value) ==
    /\ pc = "rt_loop"
    /\ retry_i < args.attempts
    /\ hist' = Log(hist, "fn:returns:" \o value)
    /\ retry_i' = retry_i + 1
    /\ UNCHANGED <<pc, result, last_exc, research_data, research_results, score_data,
                   outreach_data, email_content, is_valid, go>>
    /\ RetryFrame

\* return fn()
RT_FnReturns(value) ==
    /\ pc = "rt_loop"
    /\ retry_i < args.attempts
    /\ hist' = Log(hist, "fn:returns:" \o value)
    /\ Finish([fn |-> "retry", kind |-> "return", value |-> value])
    /\ RetryFrame

\* fn() raises e: last_exc = e, time.sleep(wait), next i
RT_FnRaises(e) ==
    /\ pc = "rt_loop"
    /\ retry_i < args.attempts
    /\ last_exc' = e
    /\ hist' = Log(Log([hist EXCEPT !.sleeps = @ + 1], "fn:raises:" \o e), "sleep")
    /\ retry_i' = retry_i + 1
    /\ UNCHANGED <<pc, result, research_data, research_results, score_data,
                   outreach_data, email_content, is_valid, go>>
    /\ RetryFrame

\* the loop is over: raise last_exc
RT_Exhausted ==
    /\ pc = "rt_loop"
    /\ retry_i >= args.attempts
    /\ hist' = hist
    /\ Finish([fn |-> "retry", kind |-> "raise", value |-> last_exc])
    /\ RetryFrame

(***************************************************************************)
(* The program.                                                            *)
(***************************************************************************)
StoreCall ==
    \/ \E id \in KnownIds : CreateSession(id)
    \/ \E id \in KnownIds : GetSession(id)
    \/ \E id \in KnownIds, new_state \in PartialMaps : UpdateSession(id, new_state)
    \/ \E id \in KnownIds : DeleteSession(id)
    \/ ListSessions

WorkflowCall ==
    \/ \E c \in CompanyNames, n \in ContactNames : Call_Coordinator_run(c, n)
    \/ \E c \in CompanyNames, id \in KnownIds : Call_ResearchAgent(c, id)
    \/ \E c \in CompanyNames, n \in ContactNames, id \in KnownIds : Call_OutreachAgent(c, n, id)
    \/ \E c \in CompanyNames, n \in ContactNames, tier \in Tiers, m \in BOOLEAN :
          Call_generate_outreach(c, n, tier, m)

ResearchStep ==
    \/ RA_Research
    \/ RA_Save

OutreachStep ==
    \/ OA_LoadFails
    \/ OA_Load
    \/ OA_Score
    \/ OA_Gen1
    \/ OA_Validate1
    \/ OA_MarkValid
    \/ OA_Gen2
    \/ OA_Validate2
    \/ OA_MarkRepaired
    \/ OA_Fallback
    \/ OA_Explain
    \/ OA_Save

GenerateStep ==
    \/ GO_NoModel
    \/ GO_Polish
    \/ \E text \in ModelTexts : Retry_CallReturns(text)
    \/ Retry_CallRaises
    \/ Retry_Exhausted
    \/ GO_Return

Next ==
    \/ StoreCall
    \/ WorkflowCall
    \/ ResearchStep
    \/ OutreachStep
    \/ GenerateStep

Spec == Init /\ [][Next]_vars

SpecStore == InitStore /\ [][StoreCall]_vars

\* a Coordinator_run and another caller of the shared store
OtherCall ==
    \/ Other_create_session
    \/ \E new_state \in PartialMaps : Other_update_session(new_state)
    \/ Other_delete_session

NextShared ==
    \/ \E c \in CompanyNames, n \in ContactNames : Call_Coordinator_run(c, n)
    \/ ResearchStep
    \/ OutreachStep
    \/ GO_NoModel
    \/ GO_Polish
    \/ \E text \in ModelTexts : Retry_CallReturns(text)
    \/ Retry_CallRaises
    \/ Retry_Exhausted
    \/ OtherCall

SpecShared == InitShared /\ [][NextShared]_vars

\* the two stages called by hand, on identifiers of the caller
NextStages ==
    \/ \E id \in ExternalIds : CreateSession(id)
    \/ \E c \in CompanyNames, id \in ExternalIds : Call_ResearchAgent(c, id)
    \/ \E c \in CompanyNames, n \in ContactNames, id \in ExternalIds :
          Call_OutreachAgent(c, n, id)
    \/ ResearchStep
    \/ OutreachStep
    \/ GO_NoModel
    \/ GO_Polish
    \/ \E text \in ModelTexts : Retry_CallReturns(text)
    \/ Retry_CallRaises
    \/ Retry_Exhausted

SpecStages == InitStages /\ [][NextStages]_vars

\* the Outreach stage called by hand on a session the caller has created and
\* filled with update_session(session_id, {"research": ...})
NextOutreach ==
    \/ \E id \in ExternalIds : CreateSession(id)
    \/ \E id \in ExternalIds, rd \in CallerResearch : UpdateSession(id, ResearchUpdate(rd))
    \/ \E c \in CompanyNames, n \in ContactNames, id \in ExternalIds :
          Call_OutreachAgent(c, n, id)
    \/ OutreachStep
    \/ GO_NoModel
    \/ GO_Polish
    \/ \E text \in ModelTexts : Retry_CallReturns(text)
    \/ Retry_CallRaises
    \/ Retry_Exhausted

SpecOutreach == InitOutreach /\ [][NextOutreach]_vars

\* one direct call of validate_email, score_lead or retry
RetryStep ==
    \/ \E value \in FnValues : RT_FnReturns(value)
    \/ \E e \in FnErrors : RT_FnRaises(e)
    \/ RT_Exhausted

\* the inputs of a call: none while a call is running or none is left
Inputs(S) == IF CanCall THEN S ELSE {}

NextTools ==
    \/ \E email \in Inputs(EmailInputs) : Call_validate_email(email)
    \/ \E c \in CompanyNames, e \in Inputs(EmployeeInputs), i \in IntentInputs :
          Call_score_lead(c, e, i)
    \/ \E c \in CompanyNames, e \in Inputs(EmployeeInputs), i \in IntentInputs :
          Call_score_lead_Raises(c, e, i)
    \/ \E attempts \in 1..MaxAttempts : Call_retry(attempts)
    \/ RetryStep

SpecTools == InitTools /\ [][NextTools]_vars

\* each call of fn returns or raises, and the loop goes on
SpecRetry == InitTools /\ [][NextTools]_vars /\ WF_vars(RetryStep)

(***************************************************************************)
(* What the claims speak about.                                            *)
(***************************************************************************)
OutreachPositions == {"oa_load", "oa_score", "oa_gen1", "oa_validate1", "oa_mark_valid",
                      "oa_gen2", "oa_validate2", "oa_mark_repaired", "oa_fallback",
                      "oa_explain", "oa_save"}

Statuses == {"valid", "repaired", "fallback"}

\* a run of the Outreach stage is going on or was the last call
InOutreachRun == top \in {"Coordinator_run", "OutreachAgent"}

\* the Outreach stage has just persisted and returned its result
Persisted ==
    /\ pc = "idle"
    /\ InOutreachRun
    /\ result.kind = "return"

\* the pair the Outreach stage returned
ReturnedPair ==
    IF result.fn = "Coordinator_run" THEN result.value.outreach_results ELSE result.value

ReturnedOutreach == ReturnedPair.outreach

StoredState == sessions[args.session_id].state

GenerateEvents == {"generate_outreach:None", "generate_outreach:model"}

CallModelEvents == {"call_model:returns", "call_model:raises"}

\* the events of the trace that are in evs, in order
RECURSIVE Filter(_, _)
Filter(tr, evs) ==
    IF tr = <<>> THEN <<>>
    ELSE IF Head(tr) \in evs THEN <<Head(tr)>> \o Filter(Tail(tr), evs)
    ELSE Filter(Tail(tr), evs)

IsPrefix(a, b) == Len(a) <= Len(b) /\ SubSeq(b, 1, Len(a)) = a

\* index of the first occurrence of ev in tr, 0 when there is none
FirstIndex(tr, ev) ==
    IF \E i \in 1..Len(tr) : tr[i] = ev
    THEN CHOOSE i \in 1..Len(tr) : tr[i] = ev /\ \A j \in 1..(i - 1) : tr[j] # ev
    ELSE 0

(***************************************************************************)
(* C1: every Outreach stage run that persists has assigned                 *)
(* validation_status exactly once, and the stored value names the branch   *)
(* that produced the email: "valid" iff the first email passed             *)
(* validate_email, "repaired" iff the first failed and the regenerated one *)
(* passed, "fallback" iff both failed and the email is the fixed text.     *)
(* No session ever holds another value.                                    *)
(***************************************************************************)
C1_StatusNamesBranch ==
    /\ hist.status_writes <= 1
    /\ \A id \in DOMAIN sessions :
          "outreach" \in DOMAIN sessions[id].state
             => sessions[id].state.outreach.validation_status \in Statuses
    /\ Persisted =>
          LET rec == ReturnedOutreach
              tpl == Template(args.company_name, args.contact_name)
          IN  /\ hist.status_writes = 1
              /\ StoredState.outreach = rec
              /\ rec.validation_status \in Statuses
              /\ rec.validation_status = "valid" <=> hist.first_valid = "yes"
              /\ rec.validation_status = "repaired"
                    <=> (hist.first_valid = "no" /\ hist.second_valid = "yes")
              /\ rec.validation_status = "fallback"
                    <=> (hist.first_valid = "no" /\ hist.second_valid = "no")
              /\ rec.validation_status = "valid"
                    => (rec.email = tpl /\ validate_email(tpl))
              /\ rec.validation_status = "repaired"
                    => (~validate_email(tpl) /\ validate_email(rec.email))
              /\ rec.validation_status = "fallback"
                    => /\ ~validate_email(tpl)
                       /\ rec.email = FallbackEmail(args.company_name, args.contact_name)

\* a run whose repair email passed has persisted
C1_Witness ==
    /\ Persisted
    /\ ReturnedOutreach.validation_status = "repaired"
    /\ hist.status_writes = 1

(***************************************************************************)
(* C2: the email of every stored OutreachRecord whose validation_status is *)
(* "fallback" passes validate_email.                                       *)
(***************************************************************************)
C2_FallbackIsValid ==
    \A id \in DOMAIN sessions :
       ("outreach" \in DOMAIN sessions[id].state
        /\ sessions[id].state.outreach.validation_status = "fallback")
          => validate_email(sessions[id].state.outreach.email)

(***************************************************************************)
(* C3: when the first email and the repair email are both invalid, the     *)
(* run ends with validation_status "fallback" and the fixed fallback text, *)
(* which holds contact_name and company_name; from the fallback branch on  *)
(* no generation and no model call is made, and the run does not fail.     *)
(***************************************************************************)
C3_BothInvalidFallsBack ==
    /\ (InOutreachRun /\ hist.first_valid = "no" /\ hist.second_valid = "no")
          => /\ result.kind # "raise"
             /\ pc \in {"oa_fallback", "oa_explain", "oa_save", "idle"}
             /\ pc = "oa_fallback" => ENABLED OA_Fallback
             /\ pc # "oa_fallback" =>
                   LET i == FirstIndex(hist.trace, "fallback")
                   IN  /\ i > 0
                       /\ \A j \in (i + 1)..Len(hist.trace) :
                             hist.trace[j] \notin GenerateEvents \cup CallModelEvents
                       /\ outreach_data # EmptyMap =>
                             outreach_data.validation_status = "fallback"
    /\ (Persisted /\ hist.first_valid = "no" /\ hist.second_valid = "no")
          => LET rec == ReturnedOutreach
             IN  /\ rec.validation_status = "fallback"
                 /\ rec.email = FallbackEmail(args.company_name, args.contact_name)
                 /\ Contains(rec.email, args.contact_name)
                 /\ Contains(rec.email, args.company_name)
                 /\ (args.company_name = "Acme Corp" /\ args.contact_name = "Alice")
                       => rec.email = "Hi Alice,\n\nChecking in regarding Acme Corp. We have some updates that might interest you.\n\nBest,\nSales Team"

\* a run whose two emails both failed has persisted the fallback
C3_Witness ==
    /\ Persisted
    /\ hist.first_valid = "no"
    /\ hist.second_valid = "no"
    /\ StoredState.outreach.validation_status = "fallback"

(***************************************************************************)
(* C4: the initial generation is made without the model client; the model  *)
(* is called only after the first email failed validation, within the one  *)
(* repair generation; a run whose first email passed ends "valid" without  *)
(* any call of the model.                                                  *)
(***************************************************************************)
C4_PolishOnlyOnRepair ==
    InOutreachRun =>
       /\ (pc = "go_start" /\ go.ret = "oa_validate1") => ~go.model_client
       /\ Filter(hist.trace, GenerateEvents) # <<>>
             => Head(Filter(hist.trace, GenerateEvents)) = "generate_outreach:None"
       /\ hist.polish_calls > 0 => (hist.first_valid = "no" /\ hist.gen_repair = 1)
       /\ hist.first_valid = "yes"
             => /\ hist.polish_calls = 0
                /\ hist.gen_repair = 0
                /\ Filter(hist.trace, CallModelEvents) = <<>>
                /\ pc \in {"oa_mark_valid", "oa_explain", "oa_save", "idle"}
       /\ (Persisted /\ hist.first_valid = "yes")
             => ReturnedOutreach.validation_status = "valid"

\* a run whose first email passed has persisted
C4_Witness ==
    /\ Persisted
    /\ hist.first_valid = "yes"
    /\ ReturnedOutreach.validation_status = "valid"
    /\ hist.polish_calls = 0

(***************************************************************************)
(* C5: an Outreach stage run calls generate_outreach at most twice: one    *)
(* initial call and at most one repair call; a run that persists has made  *)
(* exactly one initial call.                                               *)
(***************************************************************************)
C5_AtMostTwoGenerations ==
    InOutreachRun =>
       /\ hist.gen_initial <= 1
       /\ hist.gen_repair <= 1
       /\ hist.gen_repair = 1 => hist.gen_initial = 1
       /\ Len(Filter(hist.trace, GenerateEvents)) = hist.gen_initial + hist.gen_repair
       /\ Len(Filter(hist.trace, GenerateEvents)) <= 2
       /\ hist.polish_calls <= PolishAttempts
       /\ Persisted => hist.gen_initial = 1

\* a run that made the initial and the repair call has persisted
C5_Witness ==
    /\ Persisted
    /\ hist.gen_initial = 1
    /\ hist.gen_repair = 1

(***************************************************************************)
(* C6: the Outreach stage raises ValueError whenever the session is absent *)
(* or its state has no "research" key; that run has called neither         *)
(* score_lead nor generate_outreach, the step writes to no session, and    *)
(* nothing is returned.                                                    *)
(***************************************************************************)
C6_MissingResearchFails ==
    [][(/\ pc = "oa_load"
        /\ \/ args.session_id \notin DOMAIN sessions
           \/ "research" \notin DOMAIN sessions[args.session_id].state)
       => /\ pc' = "idle"
          /\ result' = [fn |-> top, kind |-> "raise", value |-> "ValueError"]
          /\ sessions' = sessions
          /\ hist'.score_calls = 0
          /\ hist'.gen_initial = 0
          /\ hist'.gen_repair = 0
          /\ hist'.polish_calls = 0
          /\ hist'.store_writes = hist.store_writes
          /\ outreach_data' = EmptyMap]_vars

\* the stage has failed on a session that exists but holds no research
C6_Witness ==
    /\ pc = "idle"
    /\ top = "OutreachAgent"
    /\ result = [fn |-> "OutreachAgent", kind |-> "raise", value |-> "ValueError"]
    /\ args.session_id \in DOMAIN sessions
    /\ "research" \notin DOMAIN sessions[args.session_id].state

(***************************************************************************)
(* C7: no failure of the model call leaves generate_outreach or the        *)
(* Outreach stage: without a model client, or when every attempt of the    *)
(* retry raised, generate_outreach returns the template (holding           *)
(* contact_name and company_name) with the tier it was given; an Outreach  *)
(* stage run in which every attempt raised persists its OutreachRecord.    *)
(***************************************************************************)
AllAttemptsRaised ==
    /\ hist.sleeps = PolishAttempts
    /\ Filter(hist.trace, CallModelEvents) = [i \in 1..PolishAttempts |-> "call_model:raises"]

C7_ModelFailureContained ==
    /\ result.kind = "raise"
          => /\ result.value = "ValueError"
             /\ hist.polish_calls = 0
             /\ hist.gen_initial + hist.gen_repair + hist.gen_direct = 0
    /\ (pc \in {"oa_validate1", "oa_validate2", "go_return"}
        /\ (~go.model_client \/ AllAttemptsRaised))
          => /\ outreach_data = [email |-> Template(args.company_name, args.contact_name),
                                 tier |-> go.tier]
             /\ Contains(outreach_data.email, args.contact_name)
             /\ Contains(outreach_data.email, args.company_name)
             /\ top = "generate_outreach" => outreach_data.tier = args.tier
    /\ (pc = "idle" /\ top = "generate_outreach" /\ result.kind = "return"
        /\ (hist.polish_calls = 0 \/ AllAttemptsRaised))
          => result.value = [email |-> Template(args.company_name, args.contact_name),
                             tier |-> args.tier]
    /\ (InOutreachRun /\ AllAttemptsRaised /\ pc = "idle")
          => /\ Persisted
             /\ "outreach" \in DOMAIN StoredState
             /\ StoredState.outreach = ReturnedOutreach

\* an Outreach stage run in which both attempts of the model call raised
\* has persisted its record
C7_Witness ==
    /\ Persisted
    /\ AllAttemptsRaised
    /\ "outreach" \in DOMAIN StoredState

(***************************************************************************)
(* C8: update_session on an existing session merges: afterwards every key  *)
(* of the partial map holds the new value, every other key of the state    *)
(* keeps its value, the state has no further key, and no other session is  *)
(* changed.  As this holds of every update, it holds after any sequence.   *)
(***************************************************************************)
UpdateStep ==
    /\ store_ops' = store_ops + 1
    /\ store_op'.op = "update"

C8_UpdateMerges ==
    [][(UpdateStep /\ store_op'.session_id \in DOMAIN sessions)
       => LET id  == store_op'.session_id
              m   == store_op'.new_state
              old == sessions[id].state
          IN  /\ store_op'.ret = "session"
              /\ DOMAIN sessions' = DOMAIN sessions
              /\ DOMAIN sessions'[id].state = DOMAIN old \cup DOMAIN m
              /\ \A k \in DOMAIN m : sessions'[id].state[k] = m[k]
              /\ \A k \in DOMAIN old \ DOMAIN m : sessions'[id].state[k] = old[k]
              /\ \A j \in DOMAIN sessions \ {id} : sessions'[j] = sessions[j]]_vars

\* an update of "note" alone has overwritten it and kept "owner", while
\* another session exists
C8_Witness ==
    /\ store_op.op = "update"
    /\ store_op.ret = "session"
    /\ DOMAIN store_op.new_state = {"note"}
    /\ store_op.session_id \in DOMAIN sessions
    /\ DOMAIN sessions[store_op.session_id].state = {"note", "owner"}
    /\ sessions[store_op.session_id].state.note = "v2"
    /\ sessions[store_op.session_id].state.owner = "v1"

(***************************************************************************)
(* C9: update_session on an identifier that is not in the store returns    *)
(* None (it does not raise), creates no session and leaves every session   *)
(* as it was.                                                              *)
(***************************************************************************)
C9_UpdateUnknownIsNoOp ==
    [][(UpdateStep /\ store_op'.session_id \notin DOMAIN sessions)
       => /\ store_op'.ret = "None"
          /\ sessions' = sessions
          /\ now' = now]_vars

\* an update of an unknown identifier has returned None while another
\* session is in the store
C9_Witness ==
    /\ store_op.op = "update"
    /\ store_op.ret = "None"
    /\ store_op.new_state # EmptyMap
    /\ store_op.session_id \notin DOMAIN sessions
    /\ DOMAIN sessions # {}

(***************************************************************************)
(* C10: Coordinator_run creates the session with empty state, then the     *)
(* Research stage writes "research", then the Outreach stage reads it and  *)
(* writes "score" and "outreach".  When the run returns the session is in  *)
(* the store, its state has exactly these three keys, and the returned     *)
(* research_results and outreach_results are the stored values.  No step   *)
(* of a workflow function removes a session.                               *)
(***************************************************************************)
StoreEvents == {"create_session", "update_session:research", "get_session",
                "get_session:research", "update_session:score,outreach"}

CoordinatorOrder == <<"create_session", "update_session:research",
                      "get_session:research", "update_session:score,outreach">>

C10_CoordinatorState ==
    top = "Coordinator_run" =>
       /\ IsPrefix(Filter(hist.trace, StoreEvents), CoordinatorOrder)
       /\ args.session_id \in DOMAIN sessions
       /\ pc \in {"ra_research", "ra_save"} => DOMAIN StoredState = {}
       /\ pc \in OutreachPositions \cup {"go_start", "retry_call"}
             => /\ DOMAIN StoredState = {"research"}
                /\ StoredState.research = research_results
       /\ pc = "idle"
             => /\ result.fn = "Coordinator_run"
                /\ result.kind = "return"
                /\ Filter(hist.trace, StoreEvents) = CoordinatorOrder
                /\ result.value.session_id = args.session_id
                /\ DOMAIN StoredState = {"research", "score", "outreach"}
                /\ result.value.research_results = StoredState.research
                /\ DOMAIN result.value.outreach_results = {"score", "outreach"}
                /\ result.value.outreach_results.score = StoredState.score
                /\ result.value.outreach_results.outreach = StoredState.outreach

C10_CoordinatorOrder ==
    /\ []C10_CoordinatorState
    /\ [][store_ops' = store_ops => DOMAIN sessions \subseteq DOMAIN sessions']_vars

\* a Coordinator_run has returned
C10_Witness ==
    /\ pc = "idle"
    /\ top = "Coordinator_run"
    /\ result.kind = "return"
    /\ DOMAIN StoredState = {"research", "score", "outreach"}

(***************************************************************************)
(* C11 as claimed: whenever a Coordinator_run has failed in the Outreach   *)
(* stage after the Research stage wrote its record, the session is in the  *)
(* store and holds "research" and neither "score" nor "outreach".          *)
(***************************************************************************)
CoordinatorFailed ==
    /\ pc = "idle"
    /\ top = "Coordinator_run"
    /\ result.kind = "raise"

ResearchSucceeded == \E i \in 1..Len(hist.trace) : hist.trace[i] = "update_session:research"

C11_FailedState ==
    /\ CoordinatorFailed
          => /\ result = [fn |-> "Coordinator_run", kind |-> "raise", value |-> "ValueError"]
             /\ ResearchSucceeded
             /\ hist.trace[Len(hist.trace)] = "get_session"
             /\ Filter(hist.trace, StoreEvents)
                   = <<"create_session", "update_session:research", "get_session">>
             /\ hist.score_calls = 0
             /\ hist.store_writes = 1
             /\ ~HasResearch(sessions, args.session_id)
             /\ args.session_id \in DOMAIN sessions
                   => /\ "score" \notin DOMAIN StoredState
                      /\ "outreach" \notin DOMAIN StoredState
    /\ (top = "Coordinator_run" /\ pc = "idle") => ResearchSucceeded

CreateStep ==
    /\ store_ops' = store_ops + 1
    /\ store_op'.op = "create"

C12_CreateOverwrites ==
    [][(CreateStep /\ store_op'.session_id \in DOMAIN sessions)
       => LET id == store_op'.session_id
          IN  /\ store_op'.ret = "session"
              /\ store_op'.warning
              /\ DOMAIN sessions' = DOMAIN sessions
              /\ sessions'[id] = [session_id |-> id, created_at |-> now',
                                  updated_at |-> now', state |-> EmptyMap]
              /\ DOMAIN sessions'[id].state = {}
              /\ now' >= now
              /\ \A j \in DOMAIN sessions \ {id} : sessions'[j] = sessions[j]]_vars

\* a session that existed was created again, later than the first time
C12_Witness ==
    /\ store_op.op = "create"
    /\ store_op.warning
    /\ store_op.ret = "session"
    /\ store_op.session_id \in DOMAIN sessions
    /\ sessions[store_op.session_id].state = EmptyMap
    /\ sessions[store_op.session_id].created_at = 1
    /\ store_ops = 3

(***************************************************************************)
(* C13: with a clock that does not go back, after any sequence of create,  *)
(* update, delete, get and list: every session has created_at <=           *)
(* updated_at; updated_at of an identifier that stays in the store never   *)
(* decreases; every successful update sets updated_at to the time read and *)
(* keeps created_at; get and list change no session.                       *)
(***************************************************************************)
C13_TimestampsOrdered ==
    \A id \in DOMAIN sessions :
       /\ sessions[id].created_at <= sessions[id].updated_at
       /\ sessions[id].updated_at <= now

C13_Timestamps ==
    /\ []C13_TimestampsOrdered
    /\ [][/\ now' >= now
          /\ \A id \in DOMAIN sessions \cap DOMAIN sessions' :
                sessions'[id].updated_at >= sessions[id].updated_at
          /\ (UpdateStep /\ store_op'.ret = "session")
                => /\ sessions'[store_op'.session_id].updated_at = now'
                   /\ sessions'[store_op'.session_id].created_at
                         = sessions[store_op'.session_id].created_at
          /\ (store_ops' = store_ops + 1 /\ store_op'.op \in {"get", "list"})
                => sessions' = sessions]_vars

\* an update has moved updated_at of a session past its created_at
C13_Witness ==
    /\ store_op.op = "update"
    /\ store_op.ret = "session"
    /\ store_op.session_id \in DOMAIN sessions
    /\ sessions[store_op.session_id].created_at < sessions[store_op.session_id].updated_at
    /\ sessions[store_op.session_id].updated_at = now

(***************************************************************************)
(* C14: validate_email returns true exactly for the strings of at least 10 *)
(* characters that contain "@": it is false for the empty string, for      *)
(* every string of fewer than 10 characters and for every string of 10 or  *)
(* more characters without "@", and true for all others.                   *)
(***************************************************************************)
C14_ValidatePolicy ==
    result.fn = "validate_email" =>
       LET e == args.email
       IN  /\ result.kind = "return"
           /\ result.value \in BOOLEAN
           /\ result.value <=> (Len(e) >= 10 /\ Contains(e, "@"))
           /\ e = "" => ~result.value
           /\ Len(e) < 10 => ~result.value
           /\ (Len(e) >= 10 /\ \A i \in 1..Len(e) : Ch(e, i) # "@") => ~result.value
           /\ (Len(e) >= 10 /\ \E i \in 1..Len(e) : Ch(e, i) = "@") => result.value

\* a string of exactly 10 characters whose last one is its only "@" passed
C14_Witness ==
    /\ result.fn = "validate_email"
    /\ args.email = "aaaaaaaaa@"
    /\ result.value = TRUE

(***************************************************************************)
(* C15 as claimed: validate_email returns true for "a@b.cccc1".            *)
(***************************************************************************)
C15_ExampleIsValid ==
    (result.fn = "validate_email" /\ args.email = "a@b.cccc1") => result.value = TRUE

(***************************************************************************)
(* C15: "a@b.cccc1" has 9 characters, not 10, so validate_email returns    *)
(* false for it; it returns true for the 10-character "a@b.ccccc1".        *)
(***************************************************************************)
C15_ExampleIsNineChars ==
    /\ (result.fn = "validate_email" /\ args.email = "a@b.cccc1")
          => /\ Len(args.email) = 9
             /\ Contains(args.email, "@")
             /\ result.value = FALSE
    /\ (result.fn = "validate_email" /\ args.email = "a@b.ccccc1")
          => /\ Len(args.email) = 10
             /\ result.value = TRUE

\* validate_email was called on "a@b.cccc1"
C15_Witness ==
    /\ result.fn = "validate_email"
    /\ args.email = "a@b.cccc1"
    /\ result.kind = "return"
    /\ result.value = FALSE

(***************************************************************************)
(* C16: for every employee_count >= 0 and every intent_score (integers),   *)
(* score_lead returns the score s with 100 * s = employee_count + 300 *    *)
(* intent_score and the tier A iff s >= 12, B iff 6 <= s < 12, C iff       *)
(* s < 6; so the tier is one of A, B, C and 12 is A, 11.99 is B, 6 is B,   *)
(* 5.99 is C.  An input that int() cannot coerce gives ValueError and no   *)
(* result.  (The field score of the model is 100 * s.)                     *)
(***************************************************************************)
C16_ScoreAndTier ==
    result.fn = "score_lead" =>
       LET e == args.employee_count
           i == args.intent_score
       IN  /\ (e.t = "int" /\ i.t = "int")
                 => /\ result.kind = "return"
                    /\ result.value.company_name = args.company_name
                    /\ result.value.score = e.v + 300 * i.v
                    /\ result.value.tier \in {"A", "B", "C"}
                    /\ result.value.tier = "A" <=> result.value.score >= 1200
                    /\ result.value.tier = "B"
                          <=> (result.value.score >= 600 /\ result.value.score < 1200)
                    /\ result.value.tier = "C" <=> result.value.score < 600
                    /\ result.value.score = 1200 => result.value.tier = "A"
                    /\ result.value.score = 1199 => result.value.tier = "B"
                    /\ result.value.score = 600 => result.value.tier = "B"
                    /\ result.value.score = 599 => result.value.tier = "C"
           /\ (e \in {PyStr("abc"), PyStr(""), PyStr("12.5"), PyNone}
               \/ i \in {PyStr("five"), PyNone})
                 => result = [fn |-> "score_lead", kind |-> "raise", value |-> "ValueError"]
           /\ result.kind \in {"return", "raise"}
           /\ result.kind = "raise" => result.value = "ValueError"

\* score_lead has returned the score 11.99, one hundredth under the A threshold
C16_Witness ==
    /\ result.fn = "score_lead"
    /\ result.kind = "return"
    /\ args.employee_count = PyInt(299)
    /\ args.intent_score = PyInt(3)
    /\ result.value.score = 1199
    /\ result.value.tier = "B"

(***************************************************************************)
(* C17: retry(fn, attempts=n) with n >= 1 ends, given that each call of fn *)
(* returns or raises, after at most n calls of fn: the first call that     *)
(* returns ends it, with that call's value as the result and no further    *)
(* call; when all n calls raise it raises the exception of the n-th call.  *)
(***************************************************************************)
FnReturnEvents == {"fn:returns:" \o v : v \in FnValues}

FnRaiseEvents == {"fn:raises:" \o e : e \in FnErrors}

FnCalls == Filter(hist.trace, FnReturnEvents \cup FnRaiseEvents)

C17_RetryState ==
    top = "retry" =>
       /\ args.attempts >= 1
       /\ Len(FnCalls) <= args.attempts
       /\ \A j \in 1..(Len(FnCalls) - 1) : FnCalls[j] \in FnRaiseEvents
       /\ pc = "rt_loop"
             => /\ Len(FnCalls) = retry_i
                /\ \A j \in 1..Len(FnCalls) : FnCalls[j] \in FnRaiseEvents
       /\ pc = "idle"
             => /\ result.fn = "retry"
                /\ result.kind \in {"return", "raise"}
                /\ Len(FnCalls) >= 1
                /\ result.kind = "return"
                      => FnCalls[Len(FnCalls)] = "fn:returns:" \o result.value
                /\ result.kind = "raise"
                      => /\ Len(FnCalls) = args.attempts
                         /\ FnCalls[args.attempts] = "fn:raises:" \o result.value

C17_RetryTerminates ==
    /\ []C17_RetryState
    /\ (pc = "rt_loop") ~> (pc = "idle")

\* three calls raised, the first e1 and the last e2, and retry raised e2
C17_Witness ==
    /\ top = "retry"
    /\ pc = "idle"
    /\ args.attempts = 3
    /\ result = [fn |-> "retry", kind |-> "raise", value |-> "e2"]
    /\ FnCalls = <<"fn:raises:e1", "fn:raises:e1", "fn:raises:e2">>

(***************************************************************************)
(* C18: a retry loop that has made k calls of fn has slept k - 1 times:    *)
(* only between two attempts, not after a call that returned and not after *)
(* the last failed attempt.                                                *)
(***************************************************************************)
C18_SleepsBetweenAttempts ==
    (pc # "retry_call" /\ hist.polish_calls > 0) => hist.sleeps = hist.polish_calls - 1

(***************************************************************************)
(* C19: when neither contact_name nor company_name contains "@", the       *)
(* template does not pass validate_email: no Outreach stage run ends       *)
(* "valid", every run that generates its first email goes on to the repair *)
(* generation and calls the model, and the run ends "fallback" whenever    *)
(* all attempts of the model call raised or the model returned a text      *)
(* without "@".                                                            *)
(***************************************************************************)
NamesWithoutAt == ~HasChar(args.company_name, "@") /\ ~HasChar(args.contact_name, "@")

ModelReturned == \E i \in 1..Len(hist.trace) : hist.trace[i] = "call_model:returns"

C19_TemplateNeverValid ==
    (InOutreachRun /\ NamesWithoutAt) =>
       /\ ~validate_email(Template(args.company_name, args.contact_name))
       /\ hist.first_valid # "yes"
       /\ pc # "oa_mark_valid"
       /\ "validation_status" \in DOMAIN outreach_data
             => outreach_data.validation_status # "valid"
       /\ pc \in {"oa_validate2", "oa_mark_repaired", "oa_fallback", "oa_explain", "oa_save"}
             => (hist.gen_repair = 1 /\ hist.polish_calls >= 1)
       /\ Persisted
             => /\ ReturnedOutreach.validation_status \in {"repaired", "fallback"}
                /\ hist.first_valid = "no"
                /\ hist.gen_repair = 1
                /\ hist.polish_calls >= 1
                /\ AllAttemptsRaised => ReturnedOutreach.validation_status = "fallback"
                /\ (ModelReturned /\ ~HasChar(hist.model_text, "@"))
                      => ReturnedOutreach.validation_status = "fallback"

\* a run on names without "@" whose model call returned a text of more than
\* ten characters without "@" has ended "fallback"
C19_Witness ==
    /\ Persisted
    /\ NamesWithoutAt
    /\ ModelReturned
    /\ ~HasChar(hist.model_text, "@")
    /\ Len(hist.model_text) > 10
    /\ ReturnedOutreach.validation_status = "fallback"

(***************************************************************************)
(* C20: ResearchAgent called with a session identifier that is not in the  *)
(* store does not raise: update_session returns None, which is ignored,    *)
(* the research record is returned and the store is left as it was (no     *)
(* session is created).  An OutreachAgent call for that identifier right   *)
(* after it fails with the missing-research error.                         *)
(***************************************************************************)
ResearchOnAbsent ==
    /\ hist.prev.fn = "ResearchAgent"
    /\ hist.prev.kind = "return"
    /\ hist.prev.ret = "None"
    /\ hist.prev.session_id = args.session_id

C20_ResearchState ==
    /\ (top = "ResearchAgent" /\ pc = "idle")
          => /\ result.fn = "ResearchAgent"
             /\ result.kind = "return"
             /\ {"company_name", "industry", "stage", "employee_count_est", "summary",
                 "lead_summary"} \subseteq DOMAIN result.value
             /\ store_op.op = "update"
             /\ store_op.new_state = [research |-> result.value]
             /\ store_op.ret = "None" => args.session_id \notin DOMAIN sessions
    /\ (top = "OutreachAgent" /\ ResearchOnAbsent)
          => /\ args.session_id \notin DOMAIN sessions
             /\ pc \in {"oa_load", "idle"}
             /\ pc = "idle"
                   => result = [fn |-> "OutreachAgent", kind |-> "raise",
                                value |-> "ValueError"]

C20_ResearchOnAbsentSession ==
    /\ []C20_ResearchState
    /\ [][(pc = "ra_save" /\ top = "ResearchAgent" /\ args.session_id \notin DOMAIN sessions)
            => /\ sessions' = sessions
               /\ store_op'.ret = "None"
               /\ result' = [fn |-> "ResearchAgent", kind |-> "return",
                             value |-> research_data]]_vars

\* OutreachAgent has failed on the identifier that the ResearchAgent call
\* before it had not found in the store
C20_Witness ==
    /\ top = "OutreachAgent"
    /\ pc = "idle"
    /\ ResearchOnAbsent
    /\ result.kind = "raise"
    /\ args.session_id \notin DOMAIN sessions

(***************************************************************************)
(* C21: the Outreach stage scores with the fixed intent_score 5; when the  *)
(* employee_count_est of the research record it loaded is a non-negative   *)
(* integer (or is absent and read as 0), the score is employee_count / 100 *)
(* + 15, so at least 15, and the tier is A in the score record and in the  *)
(* outreach record, while the stage runs, in what it returns and in what   *)
(* it stores in the session: B and C do not occur.                         *)
(***************************************************************************)
NonNegativeCount(rd) == EmployeeCountOf(rd) >= 0

C21_TierAlwaysA ==
    /\ (InOutreachRun /\ "tier" \in DOMAIN score_data /\ NonNegativeCount(research_data))
          => /\ score_data.score = 100 * 15 + EmployeeCountOf(research_data)
             /\ score_data.score >= 100 * 15
             /\ score_data.tier = "A"
             /\ "tier" \in DOMAIN outreach_data => outreach_data.tier = "A"
    /\ (Persisted /\ NonNegativeCount(StoredState.research))
          => /\ ReturnedPair.score.score >= 100 * 15
             /\ ReturnedPair.score.tier = "A"
             /\ ReturnedOutreach.tier = "A"
             /\ StoredState.score = ReturnedPair.score
             /\ StoredState.outreach = ReturnedOutreach

\* an Outreach stage has returned for a research record of 0 employees: the
\* score is exactly 15 and both stored records carry tier A
C21_Witness ==
    /\ Persisted
    /\ "employee_count_est" \in DOMAIN StoredState.research
    /\ StoredState.research.employee_count_est = 0
    /\ StoredState.score.score = 100 * 15
    /\ StoredState.score.tier = "A"
    /\ StoredState.outreach.tier = "A"

=============================================================================
